---- MODULE Spec2Model ----
(***************************************************************************)
(* A model of openalex_api_client/client.py: the OpenAlexParser digestion  *)
(* functions (merge_and_deduplicate, find_display_names, extract_abstract, *)
(* convert_publication_date, parse_work) and the OpenAlexClient resource   *)
(* access layer (get_resource, list_resources, get_total_count,            *)
(* list_all_resources) talking to an upstream server.                      *)
(***************************************************************************)
EXTENDS Integers, Sequences, FiniteSets, TLC

VARIABLES
    \* ---- OpenAlexClient: one call and the upstream it talks to
    server_total,   \* number of records the upstream holds for the query (meta.count)
    pc,             \* position of the client call
    call,           \* the call being served: operation and its arguments
    requests,       \* the requests issued so far through _request, in order
    responses,      \* what each issued request answered: "ok", "empty" or "error"
    total_pages,    \* list_all_resources: total_pages
    page,           \* list_all_resources: the loop variable
    all_records,    \* list_all_resources: all_records
    outcome,        \* how the call ended: returned value or raised error
    \* ---- OpenAlexParser: one function application
    fn,             \* the specification's function under study
    input,          \* the argument(s) the function is applied to
    step,           \* position inside the function
    parsed_data,    \* parse_work: parsed_data, an insertion-ordered dict
    failed_rules,   \* parse_work: the rules whose try block logged a warning
    output          \* the function's result: returned value or raised error

client_vars == <<server_total, pc, call, requests, responses, total_pages, page,
                 all_records, outcome>>
parser_vars == <<fn, input, step, parsed_data, failed_rules, output>>
vars == <<client_vars, parser_vars>>

(***************************************************************************)
(* Python values.  Every value is a record [t, v]: t is the Python type    *)
(* and v a sequence holding the payload.  A str is the sequence of its     *)
(* characters; a dict is the sequence of its <<key, value>> items in       *)
(* insertion order, keys being character sequences.                        *)
(***************************************************************************)
None == [t |-> "none", v |-> <<>>]
PyStr(s) == [t |-> "str", v |-> s]
PyInt(n) == [t |-> "int", v |-> <<n>>]
PyBool(b) == [t |-> "bool", v |-> <<b>>]
PyList(s) == [t |-> "list", v |-> s]
PyDict(items) == [t |-> "dict", v |-> items]

IsNone(x) == x.t = "none"
IsStr(x) == x.t = "str"
IsDict(x) == x.t = "dict"
IsList(x) == x.t = "list"

\* hash(x) succeeds: list and dict are unhashable (TypeError in a set).
Hashable(x) == x.t \notin {"list", "dict"}

\* bool(x): the truth value of a Python object.
Truthy(x) ==
    CASE x.t = "none" -> FALSE
      [] x.t = "int" -> x.v[1] # 0
      [] x.t = "bool" -> x.v[1]
      [] OTHER -> Len(x.v) > 0

(***************************************************************************)
(* str: characters are one-character strings, ordered by code point.       *)
(***************************************************************************)
\* The characters the model uses, in code point order.
Ascii == <<" ", "-", ".", "0", "1", "2", "3", "4", "5", "6", "7", "8", "9", ":",
           "A", "B", "C", "D", "E", "F", "G", "H", "I", "J", "K", "L", "M",
           "N", "O", "P", "Q", "R", "S", "T", "U", "V", "W", "X", "Y", "Z",
           "[", "]", "_",
           "a", "b", "c", "d", "e", "f", "g", "h", "i", "j", "k", "l", "m",
           "n", "o", "p", "q", "r", "s", "t", "u", "v", "w", "x", "y", "z", "|">>

Ord(c) == CHOOSE i \in 1..Len(Ascii) : Ascii[i] = c

Digits == {"0", "1", "2", "3", "4", "5", "6", "7", "8", "9"}

\* a < b on str: lexicographic on code points, a proper prefix first.
RECURSIVE StrLess(_, _)
StrLess(a, b) ==
    IF b = <<>> THEN FALSE
    ELSE IF a = <<>> THEN TRUE
    ELSE IF Head(a) = Head(b) THEN StrLess(Tail(a), Tail(b))
    ELSE Ord(Head(a)) < Ord(Head(b))

\* sep.join(parts) for a sequence of character sequences.
RECURSIVE Join(_, _)
Join(sep, parts) ==
    IF parts = <<>> THEN <<>>
    ELSE IF Len(parts) = 1 THEN parts[1]
    ELSE parts[1] \o sep \o Join(sep, Tail(parts))

\* sub in s
Contains(s, sub) ==
    \E i \in 0..(Len(s) - Len(sub)) : SubSeq(s, i + 1, i + Len(sub)) = sub

\* s.replace(".", "_")
ReplaceDots(s) == [i \in 1..Len(s) |-> IF s[i] = "." THEN "_" ELSE s[i]]

\* Length of the match of r'\[\d+\]' starting at position i of s, 0 if none.
RECURSIVE DigitRun(_, _)
DigitRun(s, i) ==
    IF i <= Len(s) /\ s[i] \in Digits THEN 1 + DigitRun(s, i + 1) ELSE 0

IndexMatch(s, i) ==
    IF i <= Len(s) /\ s[i] = "["
    THEN LET n == DigitRun(s, i + 1)
         IN IF n >= 1 /\ i + n + 1 <= Len(s) /\ s[i + n + 1] = "]" THEN n + 2 ELSE 0
    ELSE 0

\* re.search(r'\[\d+\]', key)
HasIndex(key) == \E i \in 1..Len(key) : IndexMatch(key, i) > 0

\* re.sub(r'\[\d+\]', '', key): leftmost non-overlapping matches, one pass.
RECURSIVE SubIndexFrom(_, _)
SubIndexFrom(key, i) ==
    IF i > Len(key) THEN <<>>
    ELSE LET n == IndexMatch(key, i)
         IN IF n > 0 THEN SubIndexFrom(key, i + n)
            ELSE <<key[i]>> \o SubIndexFrom(key, i + 1)

SubIndex(key) == SubIndexFrom(key, 1)

\* str(i) for 0 <= i, as characters.
RECURSIVE IntToStr(_)
IntToStr(n) ==
    IF n < 10 THEN <<Ascii[Ord("0") + n]>>
    ELSE IntToStr(n \div 10) \o <<Ascii[Ord("0") + (n % 10)]>>

(***************************************************************************)
(* dict and set                                                            *)
(***************************************************************************)
\* Index of key among the items, 0 if absent.
ItemIndex(items, key) ==
    IF \E i \in 1..Len(items) : items[i][1] = key
    THEN CHOOSE i \in 1..Len(items) : items[i][1] = key
    ELSE 0

HasKey(items, key) == ItemIndex(items, key) > 0

\* items[key], for a key that is present
Lookup(items, key) == items[ItemIndex(items, key)][2]

\* d.get(key, default) on the items of a dict
Get(items, key, default) ==
    IF HasKey(items, key) THEN Lookup(items, key) ELSE default

\* d[key] = value: an existing key keeps its place, a new one goes last.
SetItem(items, key, value) ==
    IF HasKey(items, key)
    THEN [items EXCEPT ![ItemIndex(items, key)] = <<key, value>>]
    ELSE Append(items, <<key, value>>)

Keys(items) == {items[i][1] : i \in 1..Len(items)}

\* a == b on Python values: bool is an int, so True == 1 and False == 0.
NumOf(x) == IF x.t = "bool" THEN (IF x.v[1] THEN 1 ELSE 0) ELSE x.v[1]
PyEq(a, b) ==
    IF a.t \in {"int", "bool"} /\ b.t \in {"int", "bool"}
    THEN NumOf(a) = NumOf(b)
    ELSE a = b

\* s.add(x) on a set of hashable values
SetAdd(s, x) == IF \E y \in s : PyEq(x, y) THEN s ELSE s \cup {x}

\* sorted(s) for a set of str values: the character sequences in ascending order.
RECURSIVE SortedStrs(_)
SortedStrs(s) ==
    IF s = {} THEN <<>>
    ELSE LET m == CHOOSE x \in s : \A y \in s \ {x} : StrLess(x, y)
         IN <<m>> \o SortedStrs(s \ {m})

Returned(value) == [kind |-> "return", value |-> value]
Raised(error) == [kind |-> "raise", error |-> error]
Pending == [kind |-> "pending"]

(***************************************************************************)
(* OpenAlexParser.merge_and_deduplicate                                    *)
(***************************************************************************)
\* A loop body that ignores what the key already holds: the last value wins.
MergeItemOverwrite(merged_data, key, value) ==
    [ok |-> TRUE, merged |-> SetItem(merged_data, SubIndex(key), {value})]

\* The body of the loop over data.items() for one item: merged_data as ordered
\* <<key, set>> items, ok = FALSE for the TypeError of a value that cannot go
\* into a set.
MergeItem(merged_data, key, value) ==
    IF ~Hashable(value) THEN [ok |-> FALSE, merged |-> merged_data]
    ELSE IF HasIndex(key)
    THEN LET normalized_key == SubIndex(key)
             old == Get(merged_data, normalized_key, {})
         IN [ok |-> TRUE, merged |-> SetItem(merged_data, normalized_key, SetAdd(old, value))]
    ELSE [ok |-> TRUE, merged |-> SetItem(merged_data, key, {value})]

\* The loop from item i on; an exception ends it.
RECURSIVE MergeLoop(_, _, _)
MergeLoop(data, i, acc) ==
    IF i > Len(data) \/ ~acc.ok THEN acc
    ELSE MergeLoop(data, i + 1, MergeItem(acc.merged, data[i][1], data[i][2]))

\* '|'.join(sorted(v)) if len(v) > 1 else next(iter(v)), for one set v.
\* sorted or join raise TypeError unless every element is a str.
JoinRaises(v) == Cardinality(v) > 1 /\ \E x \in v : ~IsStr(x)

JoinValues(v) ==
    IF Cardinality(v) > 1
    THEN PyStr(Join(<<"|">>, SortedStrs({x.v : x \in v})))
    ELSE CHOOSE x \in v : TRUE

merge_and_deduplicate(data) ==
    LET r == MergeLoop(data, 1, [ok |-> TRUE, merged |-> <<>>])
    IN IF ~r.ok THEN Raised("TypeError")
       ELSE IF \E i \in 1..Len(r.merged) : JoinRaises(r.merged[i][2])
       THEN Raised("TypeError")
       ELSE Returned(PyDict([i \in 1..Len(r.merged) |->
                               <<r.merged[i][1], JoinValues(r.merged[i][2])>>]))

(***************************************************************************)
(* The field names of client.py, as character sequences.                   *)
(***************************************************************************)
K_id == <<"i", "d">>
K_doi == <<"d", "o", "i">>
K_title == <<"t", "i", "t", "l", "e">>
K_publication_year == <<"p", "u", "b", "l", "i", "c", "a", "t", "i", "o", "n", "_", "y", "e", "a", "r">>
K_language == <<"l", "a", "n", "g", "u", "a", "g", "e">>
K_type == <<"t", "y", "p", "e">>
K_ids == <<"i", "d", "s">>
K_pmid == <<"p", "m", "i", "d">>
K_mag == <<"m", "a", "g">>
K_apc_paid == <<"a", "p", "c", "_", "p", "a", "i", "d">>
K_value_usd == <<"v", "a", "l", "u", "e", "_", "u", "s", "d">>
K_referenced_works_count == <<"r", "e", "f", "e", "r", "e", "n", "c", "e", "d", "_", "w", "o", "r", "k", "s", "_", "c", "o", "u", "n", "t">>
K_cited_by_count == <<"c", "i", "t", "e", "d", "_", "b", "y", "_", "c", "o", "u", "n", "t">>
K_countries_distinct_count == <<"c", "o", "u", "n", "t", "r", "i", "e", "s", "_", "d", "i", "s", "t", "i", "n", "c", "t", "_", "c", "o", "u", "n", "t">>
K_institutions_distinct_count == <<"i", "n", "s", "t", "i", "t", "u", "t", "i", "o", "n", "s", "_", "d", "i", "s", "t", "i", "n", "c", "t", "_", "c", "o", "u", "n", "t">>
K_locations_count == <<"l", "o", "c", "a", "t", "i", "o", "n", "s", "_", "c", "o", "u", "n", "t">>
K_fwci == <<"f", "w", "c", "i">>
K_primary_location == <<"p", "r", "i", "m", "a", "r", "y", "_", "l", "o", "c", "a", "t", "i", "o", "n">>
K_source == <<"s", "o", "u", "r", "c", "e">>
K_display_name == <<"d", "i", "s", "p", "l", "a", "y", "_", "n", "a", "m", "e">>
K_host_organization_name == <<"h", "o", "s", "t", "_", "o", "r", "g", "a", "n", "i", "z", "a", "t", "i", "o", "n", "_", "n", "a", "m", "e">>
K_primary_location_display_name == <<"p", "r", "i", "m", "a", "r", "y", "_", "l", "o", "c", "a", "t", "i", "o", "n", "_", "d", "i", "s", "p", "l", "a", "y", "_", "n", "a", "m", "e">>
K_primary_location_host_organization_name == <<"p", "r", "i", "m", "a", "r", "y", "_", "l", "o", "c", "a", "t", "i", "o", "n", "_", "h", "o", "s", "t", "_", "o", "r", "g", "a", "n", "i", "z", "a", "t", "i", "o", "n", "_", "n", "a", "m", "e">>
K_publication_date == <<"p", "u", "b", "l", "i", "c", "a", "t", "i", "o", "n", "_", "d", "a", "t", "e">>
K_citation_normalized_percentile == <<"c", "i", "t", "a", "t", "i", "o", "n", "_", "n", "o", "r", "m", "a", "l", "i", "z", "e", "d", "_", "p", "e", "r", "c", "e", "n", "t", "i", "l", "e">>
K_open_access == <<"o", "p", "e", "n", "_", "a", "c", "c", "e", "s", "s">>
K_is_oa == <<"i", "s", "_", "o", "a">>
K_oa_status == <<"o", "a", "_", "s", "t", "a", "t", "u", "s">>
K_open_access_is_oa == <<"o", "p", "e", "n", "_", "a", "c", "c", "e", "s", "s", "_", "i", "s", "_", "o", "a">>
K_open_access_oa_status == <<"o", "p", "e", "n", "_", "a", "c", "c", "e", "s", "s", "_", "o", "a", "_", "s", "t", "a", "t", "u", "s">>
K_grants == <<"g", "r", "a", "n", "t", "s">>
K_funder_display_name == <<"f", "u", "n", "d", "e", "r", "_", "d", "i", "s", "p", "l", "a", "y", "_", "n", "a", "m", "e">>
K_countries_codes == <<"c", "o", "u", "n", "t", "r", "i", "e", "s", "_", "c", "o", "d", "e", "s">>
K_authorships == <<"a", "u", "t", "h", "o", "r", "s", "h", "i", "p", "s">>
K_countries == <<"c", "o", "u", "n", "t", "r", "i", "e", "s">>
K_topics == <<"t", "o", "p", "i", "c", "s">>
K_keywords == <<"k", "e", "y", "w", "o", "r", "d", "s">>
K_sustainable_development_goals == <<"s", "u", "s", "t", "a", "i", "n", "a", "b", "l", "e", "_", "d", "e", "v", "e", "l", "o", "p", "m", "e", "n", "t", "_", "g", "o", "a", "l", "s">>
K_abstract == <<"a", "b", "s", "t", "r", "a", "c", "t">>
K_abstract_inverted_index == <<"a", "b", "s", "t", "r", "a", "c", "t", "_", "i", "n", "v", "e", "r", "t", "e", "d", "_", "i", "n", "d", "e", "x">>
K_author == <<"a", "u", "t", "h", "o", "r">>
K_percentiles_ == <<"p", "e", "r", "c", "e", "n", "t", "i", "l", "e", "s", "_">>
K_grants_open == <<"g", "r", "a", "n", "t", "s", "[">>
K_grants_close == <<"]", "_", "f", "u", "n", "d", "e", "r", "_", "d", "i", "s", "p", "l", "a", "y", "_", "n", "a", "m", "e">>
EmptyStr == PyStr(<<>>)
NoAbstract == PyStr(<<"N", "o", " ", "a", "b", "s", "t", "r", "a", "c", "t", " ", "a", "v", "a", "i", "l", "a", "b", "l", "e">>)
MidnightZ == <<"T", "0", "0", ":", "0", "0", ":", "0", "0", "Z">>

\* iter(x): the elements a for loop visits, or a TypeError.
Iter(x) ==
    CASE IsList(x) -> [ok |-> TRUE, seq |-> x.v]
      [] IsDict(x) -> [ok |-> TRUE, seq |-> [i \in 1..Len(x.v) |-> PyStr(x.v[i][1])]]
      [] IsStr(x) -> [ok |-> TRUE, seq |-> [i \in 1..Len(x.v) |-> PyStr(<<x.v[i]>>)]]
      [] OTHER -> [ok |-> FALSE, seq |-> <<>>]

(***************************************************************************)
(* OpenAlexParser.find_display_names: the <<path, value>> pairs the        *)
(* generator yields, in order.                                             *)
(***************************************************************************)
RECURSIVE find_display_names(_, _)
RECURSIVE FindInDict(_, _, _)
RECURSIVE FindInList(_, _, _)
find_display_names(obj, path) ==
    IF IsDict(obj) THEN FindInDict(obj.v, 1, path)
    ELSE IF IsList(obj) THEN FindInList(obj.v, 1, path)
    ELSE <<>>

FindInDict(items, i, path) ==
    IF i > Len(items) THEN <<>>
    ELSE LET key == items[i][1]
             value == items[i][2]
             new_path == IF path # <<>> THEN path \o <<".">> \o key ELSE key
         IN (IF Contains(key, K_display_name)
             THEN << <<new_path, value>> >>
             ELSE find_display_names(value, new_path))
            \o FindInDict(items, i + 1, path)

FindInList(list, i, path) ==
    IF i > Len(list) THEN <<>>
    ELSE LET new_path == path \o <<"[">> \o IntToStr(i - 1) \o <<"]">>
         IN find_display_names(list[i], new_path) \o FindInList(list, i + 1, path)

(***************************************************************************)
(* OpenAlexParser.extract_unique_country_codes                             *)
(***************************************************************************)
\* country_codes.update(author.get('countries', [])) for one author; ok = FALSE
\* when author is no dict, its countries cannot be iterated or hold an unhashable
AddCountries(country_codes, author) ==
    IF ~IsDict(author) THEN [ok |-> FALSE, codes |-> country_codes]
    ELSE LET it == Iter(Get(author.v, K_countries, PyList(<<>>)))
         IN IF ~it.ok \/ \E j \in 1..Len(it.seq) : ~Hashable(it.seq[j])
            THEN [ok |-> FALSE, codes |-> country_codes]
            ELSE [ok |-> TRUE,
                  codes |-> country_codes \cup {it.seq[j] : j \in 1..Len(it.seq)}]

\* for author in authorships, from author i on; an exception ends it.
RECURSIVE CountryLoop(_, _, _)
CountryLoop(authors, i, acc) ==
    IF i > Len(authors) \/ ~acc.ok THEN acc
    ELSE CountryLoop(authors, i + 1, AddCountries(acc.codes, authors[i]))

\* The codes of every author in the order met, repeats kept, joined by '|'.
RECURSIVE CodesInOrder(_, _)
CodesInOrder(authors, i) ==
    IF i > Len(authors) THEN <<>>
    ELSE LET countries == Get(authors[i].v, K_countries, PyList(<<>>)).v
         IN [j \in 1..Len(countries) |-> countries[j].v] \o CodesInOrder(authors, i + 1)

extract_country_codes_in_order(authorships) ==
    Returned(PyStr(Join(<<"|">>, CodesInOrder(authorships.v, 1))))

\* Returned(str), or Raised when the loop or sorted/join raises.
extract_unique_country_codes(authorships) ==
    LET it == Iter(authorships)
        r == IF it.ok THEN CountryLoop(it.seq, 1, [ok |-> TRUE, codes |-> {}]) ELSE [ok |-> FALSE, codes |-> {}]
    IN IF ~r.ok THEN Raised("Exception")
       ELSE IF \E x \in r.codes : ~IsStr(x) THEN Raised("TypeError")
       ELSE Returned(PyStr(Join(<<"|">>, SortedStrs({x.v : x \in r.codes}))))

(***************************************************************************)
(* OpenAlexParser.convert_publication_date                                 *)
(* datetime.strptime(s, '%Y-%m-%d') matches the regular expression         *)
(*   (\d\d\d\d)-(1[0-2]|0[1-9]|[1-9])-(3[01]|[12]\d|0[1-9]|[1-9]| [1-9])   *)
(* at the start of s, wants nothing left over, and builds the date.        *)
(***************************************************************************)
CharAt(s, i) == IF 1 <= i /\ i <= Len(s) THEN s[i] ELSE ""
DigitVal(c) == Ord(c) - Ord("0")
NonZeroDigits == Digits \ {"0"}

\* Length matched by the day group at position j, 0 if no alternative matches.
DayLen(s, j) ==
    CASE CharAt(s, j) = "3" /\ CharAt(s, j + 1) \in {"0", "1"} -> 2
      [] CharAt(s, j) \in {"1", "2"} /\ CharAt(s, j + 1) \in Digits -> 2
      [] CharAt(s, j) = "0" /\ CharAt(s, j + 1) \in NonZeroDigits -> 2
      [] CharAt(s, j) \in NonZeroDigits -> 1
      [] CharAt(s, j) = " " /\ CharAt(s, j + 1) \in NonZeroDigits -> 2
      [] OTHER -> 0

\* A month alternative of length n matches at 6 and the rest of the pattern follows.
MonthThen(s, n) == CharAt(s, 6 + n) = "-" /\ DayLen(s, 7 + n) > 0

\* Length matched by the month group (first alternative that lets the rest match).
MonthLen(s) ==
    CASE CharAt(s, 6) = "1" /\ CharAt(s, 7) \in {"0", "1", "2"} /\ MonthThen(s, 2) -> 2
      [] CharAt(s, 6) = "0" /\ CharAt(s, 7) \in NonZeroDigits /\ MonthThen(s, 2) -> 2
      [] CharAt(s, 6) \in NonZeroDigits /\ MonthThen(s, 1) -> 1
      [] OTHER -> 0

\* int() of the characters s[i..j], blanks skipped
RECURSIVE ToInt(_, _, _)
ToInt(s, i, j) ==
    IF i > j THEN 0
    ELSE IF s[j] \in Digits THEN DigitVal(s[j]) + 10 * ToInt(s, i, j - 1)
    ELSE ToInt(s, i, j - 1)

IsLeap(y) == (y % 4 = 0 /\ y % 100 # 0) \/ y % 400 = 0
DaysInMonth(y, m) ==
    IF m = 2 THEN (IF IsLeap(y) THEN 29 ELSE 28)
    ELSE IF m \in {4, 6, 9, 11} THEN 30 ELSE 31

\* The date strptime builds, or ok = FALSE for its ValueError.
Strptime(s) ==
    LET ml == MonthLen(s)
        dl == DayLen(s, 7 + ml)
        shape == /\ \A i \in 1..4 : CharAt(s, i) \in Digits
                 /\ CharAt(s, 5) = "-"
                 /\ ml > 0
                 /\ 6 + ml + dl = Len(s)
        y == ToInt(s, 1, 4)
        m == ToInt(s, 6, 5 + ml)
        d == ToInt(s, 7 + ml, 6 + ml + dl)
    IN IF shape /\ y >= 1 /\ d <= DaysInMonth(y, m)
       THEN [ok |-> TRUE, year |-> y, month |-> m, day |-> d]
       ELSE [ok |-> FALSE, year |-> 0, month |-> 0, day |-> 0]

\* '%0*d' % (width, n)
RECURSIVE ZeroPad(_, _)
ZeroPad(n, width) ==
    IF width = 0 THEN <<>>
    ELSE ZeroPad(n \div 10, width - 1) \o <<Ascii[Ord("0") + (n % 10)]>>

\* dt.isoformat() + 'Z' for a datetime at midnight
IsoFormatZ(dt) ==
    ZeroPad(dt.year, 4) \o <<"-">> \o ZeroPad(dt.month, 2) \o <<"-">>
        \o ZeroPad(dt.day, 2) \o MidnightZ

\* strptime raises TypeError on a non-str, which the function does not catch.
convert_publication_date(publication_date_str) ==
    IF ~IsStr(publication_date_str) THEN Raised("TypeError")
    ELSE LET dt == Strptime(publication_date_str.v)
         IN IF dt.ok THEN Returned(PyStr(IsoFormatZ(dt))) ELSE Returned(None)

(***************************************************************************)
(* OpenAlexParser.extract_abstract                                         *)
(***************************************************************************)
IsPositions(x) ==
    IsList(x) /\ Len(x.v) > 0 /\ \A j \in 1..Len(x.v) : x.v[j].t = "int"

Max(S) == CHOOSE x \in S : \A y \in S : y <= x

\* abstract_words[pos] = word: the list index a position lands on (0 if IndexError)
SlotOf(pos, length) ==
    IF 0 <= pos /\ pos < length THEN pos + 1
    ELSE IF pos < 0 /\ -length <= pos THEN length + pos + 1
    ELSE 0

\* A placement that keeps the first recorded position of a word only.
PlaceFirstPosition(word, positions, j, abstract_words) ==
    [abstract_words EXCEPT ![SlotOf(positions[1].v[1], Len(abstract_words))] = word]

RECURSIVE PlacePositions(_, _, _, _)
PlacePositions(word, positions, j, abstract_words) ==
    IF j > Len(positions) THEN abstract_words
    ELSE PlacePositions(word, positions, j + 1,
             [abstract_words EXCEPT ![SlotOf(positions[j].v[1], Len(abstract_words))] = word])

RECURSIVE PlaceWords(_, _, _)
PlaceWords(items, i, abstract_words) ==
    IF i > Len(items) THEN abstract_words
    ELSE PlaceWords(items, i + 1,
                    PlacePositions(items[i][1], items[i][2].v, 1, abstract_words))

extract_abstract(abstract_inverted_index) ==
    IF ~Truthy(abstract_inverted_index) THEN Returned(NoAbstract)
    ELSE IF ~IsDict(abstract_inverted_index) THEN Raised("AttributeError")
    ELSE LET items == abstract_inverted_index.v
         IN IF \E i \in 1..Len(items) : ~IsPositions(items[i][2])
            THEN Raised("ValueError")
            ELSE LET all_pos == UNION {{items[i][2].v[j].v[1] : j \in 1..Len(items[i][2].v)} :
                                           i \in 1..Len(items)}
                     abstract_length == Max(all_pos) + 1
                     blank == [k \in 1..abstract_length |-> <<>>]
                 IN IF \E q \in all_pos : SlotOf(q, abstract_length) = 0
                    THEN Raised("IndexError")
                    ELSE LET abstract_words == PlaceWords(items, 1, blank)
                         IN Returned(PyStr(Join(<<" ">>,
                                SelectSeq(abstract_words, LAMBDA w : w # <<>>))))

(***************************************************************************)
(* OpenAlexParser.parse_work: one operator per try block.  Each takes      *)
(* work_data and parsed_data (its items, in insertion order) and gives the *)
(* new parsed_data with failed = TRUE when the block's except clause ran.  *)
(***************************************************************************)
Done(pd) == [pd |-> pd, failed |-> FALSE]
Failed(pd) == [pd |-> pd, failed |-> TRUE]

DisplayNameCap == 10

\* for field in fields: parsed_data[field] = work_data.get(field[, '']), each in its try
RECURSIVE CopyFields(_, _, _, _)
CopyFields(work_data, fields, i, acc) ==
    IF i > Len(fields) \/ acc.failed THEN acc
    ELSE CopyFields(work_data, fields, i + 1,
             IF ~IsDict(work_data) THEN Failed(acc.pd)
             ELSE Done(SetItem(acc.pd, fields[i],
                               Get(work_data.v, fields[i],
                                   IF fields[i] = K_doi THEN EmptyStr ELSE None))))

basic_fields == <<K_id, K_doi, K_title, K_publication_year, K_language, K_type>>
count_fields == <<K_referenced_works_count, K_cited_by_count, K_countries_distinct_count,
                  K_institutions_distinct_count, K_locations_count, K_fwci>>

RuleBasic(work_data, pd) == CopyFields(work_data, basic_fields, 1, Done(pd))

RuleIds(work_data, pd) ==
    IF ~IsDict(work_data) THEN Failed(pd)
    ELSE LET ids == Get(work_data.v, K_ids, PyDict(<<>>))
         IN IF ~IsDict(ids) THEN Failed(pd)
            ELSE Done(SetItem(SetItem(pd, K_pmid, Get(ids.v, K_pmid, EmptyStr)),
                              K_mag, Get(ids.v, K_mag, EmptyStr)))

RuleApcPaid(work_data, pd) ==
    IF ~IsDict(work_data) THEN Failed(pd)
    ELSE LET apc_paid_value == Get(work_data.v, K_apc_paid, None)
         IN IF IsDict(apc_paid_value)
            THEN Done(SetItem(pd, K_apc_paid, Get(apc_paid_value.v, K_value_usd, None)))
            ELSE Done(SetItem(pd, K_apc_paid, apc_paid_value))

RuleCounts(work_data, pd) == CopyFields(work_data, count_fields, 1, Done(pd))

RulePrimaryLocation(work_data, pd) ==
    IF ~IsDict(work_data) THEN Failed(pd)
    ELSE LET location == Get(work_data.v, K_primary_location, PyDict(<<>>))
         IN IF ~IsDict(location) THEN Failed(pd)
            ELSE LET primary_location == Get(location.v, K_source, PyDict(<<>>))
                 IN IF ~IsDict(primary_location) THEN Failed(pd)
                    ELSE Done(SetItem(SetItem(pd, K_primary_location_display_name,
                                  Get(primary_location.v, K_display_name, None)),
                              K_primary_location_host_organization_name,
                              Get(primary_location.v, K_host_organization_name, None)))

RulePublicationDate(work_data, pd) ==
    IF ~IsDict(work_data) THEN Failed(pd)
    ELSE LET publication_date == Get(work_data.v, K_publication_date, None)
         IN IF ~Truthy(publication_date) THEN Done(pd)
            ELSE LET r == convert_publication_date(publication_date)
                 IN IF r.kind = "raise" THEN Failed(pd)
                    ELSE Done(SetItem(pd, K_publication_date, r.value))

RECURSIVE PercentilesLoop(_, _, _)
PercentilesLoop(items, i, pd) ==
    IF i > Len(items) THEN pd
    ELSE PercentilesLoop(items, i + 1,
                         SetItem(pd, K_percentiles_ \o items[i][1], items[i][2]))

RulePercentiles(work_data, pd) ==
    IF ~IsDict(work_data) THEN Failed(pd)
    ELSE LET percentiles == Get(work_data.v, K_citation_normalized_percentile, PyDict(<<>>))
         IN IF ~IsDict(percentiles) THEN Failed(pd)
            ELSE Done(PercentilesLoop(percentiles.v, 1, pd))

RuleOpenAccess(work_data, pd) ==
    IF ~IsDict(work_data) THEN Failed(pd)
    ELSE LET open_access == Get(work_data.v, K_open_access, PyDict(<<>>))
         IN IF ~IsDict(open_access) THEN Failed(pd)
            ELSE Done(SetItem(SetItem(pd, K_open_access_is_oa,
                                      Get(open_access.v, K_is_oa, None)),
                              K_open_access_oa_status, Get(open_access.v, K_oa_status, None)))

\* for i, grant in enumerate(grants): parsed_data[f"grants[{i}]_..."] = grant.get(...)
RECURSIVE GrantsLoop(_, _, _)
GrantsLoop(grants, i, acc) ==
    IF i > Len(grants) \/ acc.failed THEN acc
    ELSE GrantsLoop(grants, i + 1,
             IF ~IsDict(grants[i]) THEN Failed(acc.pd)
             ELSE Done(SetItem(acc.pd, K_grants_open \o IntToStr(i - 1) \o K_grants_close,
                               Get(grants[i].v, K_funder_display_name, None))))

RuleGrants(work_data, pd) ==
    IF ~IsDict(work_data) THEN Failed(pd)
    ELSE LET it == Iter(Get(work_data.v, K_grants, PyList(<<>>)))
         IN IF ~it.ok THEN Failed(pd) ELSE GrantsLoop(it.seq, 1, Done(pd))

RuleCountriesCodes(work_data, pd) ==
    IF ~IsDict(work_data) THEN Failed(pd)
    ELSE LET r == extract_unique_country_codes(Get(work_data.v, K_authorships, PyList(<<>>)))
         IN IF r.kind = "raise" THEN Failed(pd)
            ELSE Done(SetItem(pd, K_countries_codes, r.value))

\* The path filter of the display names block.
KeptPath(path) ==
    /\ \/ Contains(path, K_authorships)
       \/ Contains(path, K_topics)
       \/ Contains(path, K_keywords)
       \/ Contains(path, K_sustainable_development_goals)
    /\ Contains(path, K_display_name)

\* The loop over the yielded pairs: display_names maps a kept path to the list of
\* its values (a new path starts with the empty list, then the value is appended).
RECURSIVE CollectDisplayNames(_, _, _)
CollectDisplayNames(pairs, i, display_names) ==
    IF i > Len(pairs) THEN display_names
    ELSE LET path == pairs[i][1]
             value == pairs[i][2]
         IN IF ~KeptPath(path) THEN CollectDisplayNames(pairs, i + 1, display_names)
            ELSE IF ~HasKey(display_names, path)
            THEN CollectDisplayNames(pairs, i + 1, SetItem(display_names, path, <<value>>))
            ELSE CollectDisplayNames(pairs, i + 1,
                     SetItem(display_names, path,
                             Append(Lookup(display_names, path), value)))

\* display_names[path] = display_names[path][:10] when longer than 10
CapValues(values) ==
    IF Len(values) > DisplayNameCap THEN SubSeq(values, 1, DisplayNameCap) ELSE values

\* parsed_data[path.replace(".", "_")] = "|".join(values): TypeError on a non-str value
WriteDisplayName(pd, path, values) ==
    IF \E j \in 1..Len(values) : ~IsStr(values[j]) THEN Failed(pd)
    ELSE Done(SetItem(pd, ReplaceDots(path),
                      PyStr(Join(<<"|">>, [j \in 1..Len(values) |-> values[j].v]))))

RECURSIVE WriteDisplayNames(_, _, _)
WriteDisplayNames(display_names, i, acc) ==
    IF i > Len(display_names) \/ acc.failed THEN acc
    ELSE WriteDisplayNames(display_names, i + 1,
             WriteDisplayName(acc.pd, display_names[i][1], CapValues(display_names[i][2])))

RuleDisplayNames(work_data, pd) ==
    WriteDisplayNames(CollectDisplayNames(find_display_names(work_data, <<>>), 1, <<>>), 1,
                      Done(pd))

RuleAbstract(work_data, include_abstract, pd) ==
    IF ~include_abstract THEN Done(pd)
    ELSE IF ~IsDict(work_data) THEN Failed(pd)
    ELSE LET r == extract_abstract(Get(work_data.v, K_abstract_inverted_index, None))
         IN IF r.kind = "raise" THEN Failed(pd)
            ELSE Done(SetItem(pd, K_abstract, r.value))

\* The try blocks of parse_work in source order.
Rules == <<"basic", "ids", "apc_paid", "counts", "primary_location", "publication_date",
           "percentiles", "open_access", "grants", "countries_codes", "display_names",
           "abstract">>

ApplyRule(rule, work_data, include_abstract, pd) ==
    CASE rule = "basic" -> RuleBasic(work_data, pd)
      [] rule = "ids" -> RuleIds(work_data, pd)
      [] rule = "apc_paid" -> RuleApcPaid(work_data, pd)
      [] rule = "counts" -> RuleCounts(work_data, pd)
      [] rule = "primary_location" -> RulePrimaryLocation(work_data, pd)
      [] rule = "publication_date" -> RulePublicationDate(work_data, pd)
      [] rule = "percentiles" -> RulePercentiles(work_data, pd)
      [] rule = "open_access" -> RuleOpenAccess(work_data, pd)
      [] rule = "grants" -> RuleGrants(work_data, pd)
      [] rule = "countries_codes" -> RuleCountriesCodes(work_data, pd)
      [] rule = "display_names" -> RuleDisplayNames(work_data, pd)
      [] rule = "abstract" -> RuleAbstract(work_data, include_abstract, pd)

\* parsed_data after the try blocks from rule i on
RECURSIVE RunRules(_, _, _, _)
RunRules(work_data, include_abstract, i, pd) ==
    IF i > Len(Rules) THEN pd
    ELSE RunRules(work_data, include_abstract, i + 1,
                  ApplyRule(Rules[i], work_data, include_abstract, pd).pd)

\* parse_work as its caller sees it: the returned dict, or the error raised.
parse_work(work_data, include_abstract) ==
    merge_and_deduplicate(RunRules(work_data, include_abstract, 1, <<>>))

(***************************************************************************)
(* Specifications of the parser functions: Init draws the argument from a  *)
(* bounded set, one action applies the function.  The client is at rest.   *)
(***************************************************************************)
ClientAtRest ==
    /\ server_total = 0
    /\ pc = "off"
    /\ call = [op |-> "none"]
    /\ requests = <<>>
    /\ responses = <<>>
    /\ total_pages = 0
    /\ page = 0
    /\ all_records = <<>>
    /\ outcome = Pending

ParserAtRest ==
    /\ fn = "none"
    /\ input = None
    /\ step = "off"
    /\ parsed_data = <<>>
    /\ failed_rules = {}
    /\ output = Pending

\* ---- merge_and_deduplicate
MaxMergeItems == 3

MergeKeys == {<<"a">>,
              <<"a", "[", "0", "]">>,
              <<"a", "[", "1", "]">>,
              <<"a", "[", "0", "]", "_", "s">>,
              <<"a", "[", "1", "]", "_", "s">>,
              <<"a", "_", "s">>}
MergeValues == {PyStr(<<"b">>), PyStr(<<"a", "b">>), PyStr(<<"B">>), None}

\* dicts of at most MaxMergeItems items: the keys of a dict are distinct
MergeInputs ==
    {items \in UNION {[1..n -> MergeKeys \X MergeValues] : n \in 0..MaxMergeItems} :
        \A i, j \in 1..Len(items) : i # j => items[i][1] # items[j][1]}

InitMerge ==
    /\ ClientAtRest
    /\ fn = "merge_and_deduplicate"
    /\ input \in {PyDict(items) : items \in MergeInputs}
    /\ step = "call"
    /\ parsed_data = <<>>
    /\ failed_rules = {}
    /\ output = Pending

MergeAndDeduplicate ==
    /\ fn = "merge_and_deduplicate"
    /\ step = "call"
    /\ output' = merge_and_deduplicate(input.v)
    /\ step' = "done"
    /\ UNCHANGED <<fn, input, parsed_data, failed_rules, client_vars>>

SpecMerge == InitMerge /\ [][MergeAndDeduplicate]_vars

K_a0_s == <<"a", "[", "0", "]", "_", "s">>
K_a1_s == <<"a", "[", "1", "]", "_", "s">>
K_a_s == <<"a", "_", "s">>

MergeDone == fn = "merge_and_deduplicate" /\ step = "done"
AllStrValues(items) == \A i \in 1..Len(items) : IsStr(items[i][2])

\* The values of the raw keys of data that normalize to name.
RawValues(data, name) ==
    {data[i][2] : i \in {j \in 1..Len(data) : SubIndex(data[j][1]) = name}}

\* The input holds the siblings a[0]_s and a[1]_s, nothing else named a_s, and only str values.
SiblingCase ==
    /\ MergeDone
    /\ AllStrValues(input.v)
    /\ HasKey(input.v, K_a0_s)
    /\ HasKey(input.v, K_a1_s)
    /\ ~HasKey(input.v, K_a_s)

\* C5 (as claimed): on str values, merge_and_deduplicate returns a dict whose keys
\* carry no [i] segment, one per normalized name, and the value under each name is
\* built from the values of all the raw keys that normalize to it, none discarded.
C5_AllRawKeysMerged ==
    (MergeDone /\ AllStrValues(input.v)) =>
        /\ output.kind = "return"
        /\ \A i \in 1..Len(output.value.v) : ~HasIndex(output.value.v[i][1])
        /\ Keys(output.value.v) = {SubIndex(k) : k \in Keys(input.v)}
        /\ \A i \in 1..Len(output.value.v) :
              LET all == RawValues(input.v, output.value.v[i][1])
              IN output.value.v[i][2] =
                    IF Cardinality(all) = 1 THEN CHOOSE x \in all : TRUE
                    ELSE PyStr(Join(<<"|">>, SortedStrs({x.v : x \in all})))

\* C6: siblings a[0]_s = X and a[1]_s = Y (str) come out as the single key a_s,
\* holding X itself when X = Y and the two values in ascending order joined by
\* '|' when they differ.
C6_SiblingsMerged ==
    SiblingCase =>
        LET X == Lookup(input.v, K_a0_s)
            Y == Lookup(input.v, K_a1_s)
            out == output.value.v
        IN /\ output.kind = "return"
           /\ Cardinality({i \in 1..Len(out) : out[i][1] = K_a_s}) = 1
           /\ ~HasKey(out, K_a0_s)
           /\ ~HasKey(out, K_a1_s)
           /\ Lookup(out, K_a_s) =
                 IF X = Y THEN X
                 ELSE IF StrLess(X.v, Y.v) THEN PyStr(X.v \o <<"|">> \o Y.v)
                 ELSE PyStr(Y.v \o <<"|">> \o X.v)

\* Both cases of C6 happen: equal siblings give the scalar, different ones the join.
C6_Witness ==
    /\ SiblingCase
    /\ Lookup(input.v, K_a0_s) = PyStr(<<"b">>)
    /\ Lookup(input.v, K_a1_s) = PyStr(<<"a", "b">>)
    /\ Lookup(output.value.v, K_a_s) = PyStr(<<"a", "b", "|", "b">>)

\* ---- extract_abstract
MaxPos == 4

\* The vocabulary of the abstracts.
AbstractWords == <<<<"T", "h", "e">>, <<"c", "a", "t">>, <<"s", "a", "t">>, <<"o", "n">>>>

\* The positions 0..MaxPos at which text t holds word w, ascending, as a Python list.
RECURSIVE PositionsFrom(_, _, _)
PositionsFrom(t, w, q) ==
    IF q > MaxPos THEN <<>>
    ELSE (IF t[q] = w THEN <<PyInt(q)>> ELSE <<>>) \o PositionsFrom(t, w, q + 1)

\* The inverted index of text t (position -> word number, 0 for a gap): one item
\* per word that occurs, as the upstream API encodes an abstract.
RECURSIVE IndexFrom(_, _)
IndexFrom(t, w) ==
    IF w > Len(AbstractWords) THEN <<>>
    ELSE (IF \E q \in 0..MaxPos : t[q] = w
          THEN << <<AbstractWords[w], PyList(PositionsFrom(t, w, 0))>> >>
          ELSE <<>>) \o IndexFrom(t, w + 1)

AbstractInputs ==
    {None} \cup {PyDict(IndexFrom(t, 1)) : t \in [0..MaxPos -> 0..Len(AbstractWords)]}

InitAbstract ==
    /\ ClientAtRest
    /\ fn = "extract_abstract"
    /\ input \in AbstractInputs
    /\ step = "call"
    /\ parsed_data = <<>>
    /\ failed_rules = {}
    /\ output = Pending

ExtractAbstract ==
    /\ fn = "extract_abstract"
    /\ step = "call"
    /\ output' = extract_abstract(input)
    /\ step' = "done"
    /\ UNCHANGED <<fn, input, parsed_data, failed_rules, client_vars>>

SpecAbstract == InitAbstract /\ [][ExtractAbstract]_vars

AbstractDone == fn = "extract_abstract" /\ step = "done"

\* The recorded positions of item i of an inverted index.
PositionsOf(items, i) == {items[i][2].v[j].v[1] : j \in 1..Len(items[i][2].v)}
AllPositions(items) == UNION {PositionsOf(items, i) : i \in 1..Len(items)}

\* The word recorded at position q, the empty word when none is.
WordAt(items, q) ==
    IF \E i \in 1..Len(items) : q \in PositionsOf(items, i)
    THEN items[CHOOSE i \in 1..Len(items) : q \in PositionsOf(items, i)][1]
    ELSE <<>>

\* The words at positions from..to in order, empty slots left out, single spaces between.
RECURSIVE TextOf(_, _, _)
TextOf(items, from, to) ==
    IF from > to THEN <<>>
    ELSE LET w == WordAt(items, from)
             rest == TextOf(items, from + 1, to)
         IN IF w = <<>> THEN rest
            ELSE IF rest = <<>> THEN w
            ELSE w \o <<" ">> \o rest

\* C10: a non-empty inverted index gives the words at positions 0..max in
\* positional order, each word at every one of its positions, joined by single
\* spaces; an empty or absent index gives 'No abstract available'.
C10_AbstractRebuilt ==
    AbstractDone =>
        IF IsNone(input) \/ input.v = <<>>
        THEN output = Returned(NoAbstract)
        ELSE output = Returned(PyStr(TextOf(input.v, 0, Max(AllPositions(input.v)))))

\* {The:[0,4], cat:[1], sat:[2], on:[3]} has given 'The cat sat on The'.
C10_Witness ==
    /\ AbstractDone
    /\ input = PyDict(<< <<AbstractWords[1], PyList(<<PyInt(0), PyInt(4)>>)>>,
                         <<AbstractWords[2], PyList(<<PyInt(1)>>)>>,
                         <<AbstractWords[3], PyList(<<PyInt(2)>>)>>,
                         <<AbstractWords[4], PyList(<<PyInt(3)>>)>> >>)
    /\ output = Returned(PyStr(<<"T", "h", "e", " ", "c", "a", "t", " ", "s", "a", "t", " ", "o", "n", " ", "T", "h", "e">>))

\* ---- parse_work
MaxAuthors == 15

\* Author i's display name: distinct letters, not in alphabetical order.
AuthorName(i) == <<Ascii[Ord("A") + ((i * 7) % 26)]>>
US == PyStr(<<"U", "S">>)
FR == PyStr(<<"F", "R">>)

\* One authorship object, as the upstream sends it.
Authorship(i) ==
    PyDict(<< <<K_author, PyDict(<< <<K_display_name, PyStr(AuthorName(i))>> >>)>>,
              <<K_countries, IF i % 2 = 1 THEN PyList(<<US, FR>>) ELSE PyList(<<FR>>)>> >>)

NSF == PyStr(<<"N", "S", "F">>)
ERC == PyStr(<<"E", "R", "C">>)
Grant(name) == PyDict(<< <<K_funder_display_name, name>> >>)

\* Each choice is the items a work record holds for one field: none, or the field.
GrantsChoices ==
    {<<>>,
     << <<K_grants, PyList(<<Grant(NSF)>>)>> >>,
     << <<K_grants, PyList(<<Grant(NSF), Grant(ERC)>>)>> >>,
     << <<K_grants, PyList(<<Grant(NSF), Grant(None)>>)>> >>,
     << <<K_grants, PyList(<<Grant(NSF), None>>)>> >>,
     << <<K_grants, None>> >>}

DateChoices ==
    {<<>>} \cup
    {<< <<K_publication_date, d>> >> :
        d \in {PyStr(<<"2", "0", "2", "1", "-", "0", "3", "-", "0", "5">>),
               PyStr(<<"2", "0", "2", "0", "-", "0", "2", "-", "2", "9">>),
               PyStr(<<"n", "o", "t", "-", "a", "-", "d", "a", "t", "e">>),
               PyStr(<<"2", "0", "2", "1", "-", "0", "2", "-", "3", "0">>),
               PyStr(<<"2", "0", "2", "1", "-", "3", "-", "5">>),
               PyInt(2021)}}

AuthorshipsChoices ==
    {<<>>} \cup
    {<< <<K_authorships, PyList([i \in 1..n |-> Authorship(i)])>> >> : n \in 0..MaxAuthors} \cup
    {<< <<K_authorships,
          PyList(<<Authorship(1),
                   PyDict(<< <<K_author, PyDict(<< <<K_display_name, None>> >>)>> >>)>>)>> >>}

FullRecord ==
    << <<K_title, PyStr(<<"t">>)>>,
       <<K_ids, PyDict(<< <<K_pmid, PyStr(<<"p", "1">>)>> >>)>>,
       <<K_apc_paid, PyDict(<< <<K_value_usd, PyInt(0)>> >>)>>,
       <<K_cited_by_count, PyInt(3)>>,
       <<K_primary_location,
         PyDict(<< <<K_source, PyDict(<< <<K_display_name, PyStr(<<"J">>)>>,
                                        <<K_host_organization_name, PyStr(<<"H">>)>> >>)>> >>)>>,
       <<K_citation_normalized_percentile, PyDict(<< <<<<"v", "a", "l", "u", "e">>, PyInt(9)>> >>)>>,
       <<K_open_access, PyDict(<< <<K_is_oa, PyBool(TRUE)>>, <<K_oa_status, PyStr(<<"g", "o", "l", "d">>)>> >>)>>,
       <<K_topics, PyList(<<PyDict(<< <<K_display_name, PyStr(<<"T">>)>> >>)>>)>>,
       <<K_abstract_inverted_index,
         PyDict(<< <<AbstractWords[1], PyList(<<PyInt(0), PyInt(2)>>)>>,
                   <<AbstractWords[2], PyList(<<PyInt(1)>>)>> >>)>> >>

OtherChoices ==
    {<<>>,
     FullRecord,
     << <<K_apc_paid, PyInt(0)>> >>,
     << <<K_primary_location, None>>, <<K_ids, None>> >>}

WorkInputs ==
    {PyDict(<< <<K_id, PyStr(<<"W", "1">>)>> >> \o d \o g \o a \o o) :
        d \in DateChoices, g \in GrantsChoices, a \in AuthorshipsChoices, o \in OtherChoices}

InitParse ==
    /\ ClientAtRest
    /\ fn = "parse_work"
    /\ input \in [work_data : WorkInputs, include_abstract : BOOLEAN]
    /\ step = Rules[1]
    /\ parsed_data = <<>>
    /\ failed_rules = {}
    /\ output = Pending

RuleIndex(rule) == CHOOSE i \in 1..Len(Rules) : Rules[i] = rule

\* One try block of parse_work.
ParseRule ==
    /\ fn = "parse_work"
    /\ \E i \in 1..Len(Rules) : step = Rules[i]
    /\ LET r == ApplyRule(step, input.work_data, input.include_abstract, parsed_data)
       IN /\ parsed_data' = r.pd
          /\ failed_rules' = IF r.failed THEN failed_rules \cup {step} ELSE failed_rules
    /\ step' = IF RuleIndex(step) < Len(Rules) THEN Rules[RuleIndex(step) + 1] ELSE "merge"
    /\ UNCHANGED <<fn, input, output, client_vars>>

\* return OpenAlexParser.merge_and_deduplicate(parsed_data)
ParseReturn ==
    /\ fn = "parse_work"
    /\ step = "merge"
    /\ output' = merge_and_deduplicate(parsed_data)
    /\ step' = "done"
    /\ UNCHANGED <<fn, input, parsed_data, failed_rules, client_vars>>

NextParse == ParseRule \/ ParseReturn

SpecParse == InitParse /\ [][NextParse]_vars

ParseDone == fn = "parse_work" /\ step = "done"

K_authorships_author_display_name == <<"a", "u", "t", "h", "o", "r", "s", "h", "i", "p", "s", "_", "a", "u", "t", "h", "o", "r", "_", "d", "i", "s", "p", "l", "a", "y", "_", "n", "a", "m", "e">>
K_grants_funder_display_name == <<"g", "r", "a", "n", "t", "s", "_", "f", "u", "n", "d", "e", "r", "_", "d", "i", "s", "p", "l", "a", "y", "_", "n", "a", "m", "e">>

\* C3 (as claimed): parse_work returns a flat record for every work record, the
\* ones with missing, null, ill-typed or mixed-type sub-fields included: it never
\* raises, the final merge step included.
C3_NeverRaises == ParseDone => output.kind = "return"

\* The work record lists authorships that each name their author with a str.
NamedAuthors(work_data) ==
    /\ HasKey(work_data.v, K_authorships)
    /\ LET a == Lookup(work_data.v, K_authorships)
       IN /\ IsList(a)
          /\ Len(a.v) > 0
          /\ \A i \in 1..Len(a.v) :
                /\ IsDict(a.v[i])
                /\ HasKey(a.v[i].v, K_author)
                /\ IsDict(Lookup(a.v[i].v, K_author))
                /\ HasKey(Lookup(a.v[i].v, K_author).v, K_display_name)
                /\ IsStr(Lookup(Lookup(a.v[i].v, K_author).v, K_display_name))

\* The author display names of the record, in the order of its authorships.
AuthorNamesOf(work_data) ==
    LET a == Lookup(work_data.v, K_authorships).v
    IN [i \in 1..Len(a) |-> Lookup(Lookup(a[i].v, K_author).v, K_display_name).v]

FirstN(seq, n) == IF Len(seq) > n THEN SubSeq(seq, 1, n) ELSE seq

\* C4 (as claimed): the author display names field holds at most the first 10
\* names, in the order of the authorships, joined by '|', unsorted and with
\* repeats kept.
C4_FirstTenInOrder ==
    (ParseDone /\ output.kind = "return" /\ NamedAuthors(input.work_data)) =>
        /\ HasKey(output.value.v, K_authorships_author_display_name)
        /\ Lookup(output.value.v, K_authorships_author_display_name) =
              PyStr(Join(<<"|">>, FirstN(AuthorNamesOf(input.work_data), DisplayNameCap)))

\* A str that is a date written exactly as YYYY-MM-DD.
IsYMD(d) ==
    /\ Len(d) = 10
    /\ \A i \in {1, 2, 3, 4, 6, 7, 9, 10} : d[i] \in Digits
    /\ Strptime(d).ok

\* C7 (as claimed): a publication date D written YYYY-MM-DD comes out as D followed
\* by T00:00:00Z, and for a publication date string that does not parse the
\* publication_date key is absent from the result.
C7_DateOrAbsent ==
    (/\ ParseDone
     /\ output.kind = "return"
     /\ HasKey(input.work_data.v, K_publication_date)
     /\ IsStr(Lookup(input.work_data.v, K_publication_date))) =>
        LET d == Lookup(input.work_data.v, K_publication_date).v
        IN /\ IsYMD(d) =>
                /\ HasKey(output.value.v, K_publication_date)
                /\ Lookup(output.value.v, K_publication_date) = PyStr(d \o MidnightZ)
           /\ ~Strptime(d).ok => ~HasKey(output.value.v, K_publication_date)

\* The output fields a try block of parse_work writes.
RuleWrites(rule, key) ==
    CASE rule = "basic" -> \E i \in 1..Len(basic_fields) : key = basic_fields[i]
      [] rule = "ids" -> key \in {K_pmid, K_mag}
      [] rule = "apc_paid" -> key = K_apc_paid
      [] rule = "counts" -> \E i \in 1..Len(count_fields) : key = count_fields[i]
      [] rule = "primary_location" ->
            key \in {K_primary_location_display_name, K_primary_location_host_organization_name}
      [] rule = "publication_date" -> key = K_publication_date
      [] rule = "percentiles" ->
            Len(key) >= Len(K_percentiles_) /\ SubSeq(key, 1, Len(K_percentiles_)) = K_percentiles_
      [] rule = "open_access" -> key \in {K_open_access_is_oa, K_open_access_oa_status}
      [] rule = "grants" -> key = K_grants_funder_display_name
      [] rule = "countries_codes" -> key = K_countries_codes
      [] rule = "display_names" -> KeptPath(key)
      [] rule = "abstract" -> key = K_abstract

\* parsed_data after every try block but the one named skip.
RECURSIVE RunRulesExcept(_, _, _, _, _)
RunRulesExcept(skip, work_data, include_abstract, i, pd) ==
    IF i > Len(Rules) THEN pd
    ELSE RunRulesExcept(skip, work_data, include_abstract, i + 1,
             IF Rules[i] = skip THEN pd
             ELSE ApplyRule(Rules[i], work_data, include_abstract, pd).pd)

Without(items, rule) == SelectSeq(items, LAMBDA it : ~RuleWrites(rule, it[1]))

\* C9 (as claimed): a try block that failed leaves none of its fields in the
\* returned record, and the other fields are what they are without that block.
C9_FailedRuleLeavesNothing ==
    (ParseDone /\ output.kind = "return") =>
        \A rule \in failed_rules :
            /\ \A i \in 1..Len(output.value.v) : ~RuleWrites(rule, output.value.v[i][1])
            /\ Without(output.value.v, rule) =
                  Without(merge_and_deduplicate(
                              RunRulesExcept(rule, input.work_data, input.include_abstract,
                                             1, <<>>)).value.v, rule)

(***************************************************************************)
(* OpenAlexClient.  The upstream holds server_total records for the query  *)
(* and answers each request "ok", "empty" (an empty results list) or       *)
(* "error" (a network failure or an HTTP error status, for which _request  *)
(* raises OpenAlexClientError).                                            *)
(***************************************************************************)
MaxTotal == 25
MaxPerPage == 3
default_per_page == 10

WORKS == "works"
AUTHORS == "authors"
Endpoints == {WORKS, AUTHORS}
PerPageChoices == 1..MaxPerPage \cup {default_per_page}

\* Record number i of the upstream collection, as the JSON object it sends.
Entity(i) ==
    PyDict(<< <<K_id, PyStr(<<"W">> \o IntToStr(i))>>,
              <<K_display_name, PyStr(<<"N">> \o IntToStr(i))>> >>)

\* The results of page number p with n per page, out of total records.
PageOf(total, p, n) ==
    LET first == (p - 1) * n + 1
        last == IF p * n < total THEN p * n ELSE total
    IN [i \in 1..(IF last >= first THEN last - first + 1 ELSE 0) |-> Entity(first + i - 1)]

\* _build_params for the three kinds of request
ResourceRequest(api_endpoint, resource_id) ==
    [url |-> <<api_endpoint, IntToStr(resource_id)>>, params |-> [mailto |-> "email"]]
PageRequest(api_endpoint, p, n) ==
    [url |-> <<api_endpoint>>, params |-> [mailto |-> "email", page |-> p, per_page |-> n]]
CountRequest(api_endpoint) ==
    [url |-> <<api_endpoint>>, params |-> [mailto |-> "email", per_page |-> 1]]

\* [parse_work(work, include_abstract=abstract) for work in results]: the list, or
\* the error of the first record parse_work raises on.
RECURSIVE DigestLoop(_, _, _, _)
DigestNext(parsed, results, abstract, i, acc) ==
    IF parsed.kind = "raise" THEN parsed
    ELSE DigestLoop(results, abstract, i + 1, Append(acc, parsed.value))

DigestLoop(results, abstract, i, acc) ==
    IF i > Len(results) THEN Returned(PyList(acc))
    ELSE DigestNext(parse_work(results[i], abstract), results, abstract, i, acc)

DigestAll(results, abstract) == DigestLoop(results, abstract, 1, <<>>)

\* get_resource, given how the upstream answered
get_resource(api_endpoint, resource_id, digest, abstract, response) ==
    IF response = "error" THEN Raised("OpenAlexClientError")
    ELSE IF digest /\ api_endpoint = WORKS THEN parse_work(Entity(resource_id), abstract)
    ELSE Returned(Entity(resource_id))

\* A page whose records are digested on any endpoint once digest is asked for.
list_resources_any_endpoint(api_endpoint, digest, abstract, p, n, response) ==
    IF response = "error" THEN Raised("OpenAlexClientError")
    ELSE LET results == IF response = "empty" THEN <<>> ELSE PageOf(server_total, p, n)
         IN IF digest THEN DigestAll(results, abstract) ELSE Returned(PyList(results))

\* list_resources for one page, given how the upstream answered
list_resources(api_endpoint, digest, abstract, p, n, response) ==
    IF response = "error" THEN Raised("OpenAlexClientError")
    ELSE LET results == IF response = "empty" THEN <<>> ELSE PageOf(server_total, p, n)
         IN IF digest /\ api_endpoint = WORKS THEN DigestAll(results, abstract)
            ELSE Returned(PyList(results))

\* A count that does not see the failure of its request.
get_total_count_unguarded(response) == server_total

\* get_total_count, given how the upstream answered: the except clause returns 0
get_total_count(response) ==
    IF response = "error" THEN 0 ELSE server_total

\* A page count that rounds down.
TotalPagesFloor(total_count, per_page) == total_count \div per_page

\* total_pages = (total_count + per_page - 1) // per_page
TotalPages(total_count, per_page) == (total_count + per_page - 1) \div per_page

\* A loop that stops on an error only, and goes on after an empty page.
LoopBreaksOnErrorOnly(result) ==
    result.kind = "raise" /\ result.error = "OpenAlexClientError"

\* if response: ... else: break, and except OpenAlexClientError: break
LoopBreaks(result) ==
    \/ result.kind = "raise" /\ result.error = "OpenAlexClientError"
    \/ result.kind = "return" /\ ~Truthy(result.value)

Init ==
    /\ ParserAtRest
    /\ server_total \in 0..MaxTotal
    /\ pc = "idle"
    /\ call = [op |-> "none"]
    /\ requests = <<>>
    /\ responses = <<>>
    /\ total_pages = 0
    /\ page = 0
    /\ all_records = <<>>
    /\ outcome = Pending

\* A call of get_resource: the resource exists, or the upstream answers 404.
GetResource ==
    /\ pc = "idle"
    /\ \E api_endpoint \in Endpoints, resource_id \in 1..MaxTotal,
          digest \in BOOLEAN, abstract \in BOOLEAN, response \in {"ok", "error"} :
          /\ response = "ok" => resource_id <= server_total
          /\ call' = [op |-> "get_resource", api_endpoint |-> api_endpoint,
                      digest |-> digest, abstract |-> abstract]
          /\ requests' = <<ResourceRequest(api_endpoint, resource_id)>>
          /\ responses' = <<response>>
          /\ outcome' = get_resource(api_endpoint, resource_id, digest, abstract, response)
    /\ pc' = "done"
    /\ UNCHANGED <<server_total, total_pages, page, all_records, parser_vars>>

\* A call of list_resources with page and per_page given.
ListResources ==
    /\ pc = "idle"
    /\ \E api_endpoint \in Endpoints, digest \in BOOLEAN, abstract \in BOOLEAN,
          p \in 1..MaxTotal, n \in PerPageChoices, response \in {"ok", "empty", "error"} :
          /\ call' = [op |-> "list_resources", api_endpoint |-> api_endpoint,
                      digest |-> digest, abstract |-> abstract]
          /\ requests' = <<PageRequest(api_endpoint, p, n)>>
          /\ responses' = <<response>>
          /\ outcome' = list_resources(api_endpoint, digest, abstract, p, n, response)
    /\ pc' = "done"
    /\ UNCHANGED <<server_total, total_pages, page, all_records, parser_vars>>

\* A call of get_total_count.
GetTotalCount ==
    /\ pc = "idle"
    /\ \E api_endpoint \in Endpoints, response \in {"ok", "error"} :
          /\ call' = [op |-> "get_total_count", api_endpoint |-> api_endpoint]
          /\ requests' = <<CountRequest(api_endpoint)>>
          /\ responses' = <<response>>
          /\ outcome' = Returned(PyInt(get_total_count(response)))
    /\ pc' = "done"
    /\ UNCHANGED <<server_total, total_pages, page, all_records, parser_vars>>

\* list_all_resources up to the loop: the count query, the early return on 0,
\* total_pages.
ListAllStart ==
    /\ pc = "idle"
    /\ \E api_endpoint \in Endpoints, digest \in BOOLEAN, abstract \in BOOLEAN,
          per_page \in PerPageChoices, response \in {"ok", "error"} :
          LET total_count == get_total_count(response)
          IN /\ call' = [op |-> "list_all_resources", api_endpoint |-> api_endpoint,
                         digest |-> digest, abstract |-> abstract, per_page |-> per_page]
             /\ requests' = <<CountRequest(api_endpoint)>>
             /\ responses' = <<response>>
             /\ IF total_count = 0
                THEN /\ outcome' = Returned(PyList(<<>>))
                     /\ pc' = "done"
                     /\ UNCHANGED <<total_pages, page>>
                ELSE /\ total_pages' = TotalPages(total_count, per_page)
                     /\ page' = 1
                     /\ pc' = "loop"
                     /\ UNCHANGED outcome
    /\ UNCHANGED <<server_total, all_records, parser_vars>>

\* One iteration of for page in range(1, total_pages + 1).
ListAllPage ==
    /\ pc = "loop"
    /\ page <= total_pages
    /\ \E response \in {"ok", "empty", "error"} :
       \E result \in {list_resources(call.api_endpoint, call.digest, call.abstract,
                                     page, call.per_page, response)} :
          /\ requests' = Append(requests, PageRequest(call.api_endpoint, page, call.per_page))
          /\ responses' = Append(responses, response)
          /\ IF LoopBreaks(result)
             THEN /\ pc' = "return"
                  /\ UNCHANGED <<page, all_records, outcome>>
             ELSE IF result.kind = "raise"
             THEN /\ outcome' = result
                  /\ pc' = "done"
                  /\ UNCHANGED <<page, all_records>>
             ELSE /\ all_records' = all_records \o result.value.v
                  /\ page' = page + 1
                  /\ UNCHANGED <<pc, outcome>>
    /\ UNCHANGED <<server_total, call, total_pages, parser_vars>>

\* return all_records, after the last page or a break
ListAllReturn ==
    /\ \/ pc = "return"
       \/ pc = "loop" /\ page > total_pages
    /\ outcome' = Returned(PyList(all_records))
    /\ pc' = "done"
    /\ UNCHANGED <<server_total, call, requests, responses, total_pages, page, all_records,
                   parser_vars>>

Next ==
    \/ GetResource
    \/ ListResources
    \/ GetTotalCount
    \/ ListAllStart
    \/ ListAllPage
    \/ ListAllReturn

Spec == Init /\ [][Next]_vars

\* ---- list_all_resources, as its caller sees it
ListAll == call.op = "list_all_resources"

\* ceil(T / P), from its definition
CeilDiv(T, P) == CHOOSE n \in 0..T : n * P >= T /\ (n - 1) * P < T

\* The result of page k of the call in progress when the upstream answers it.
Served(k) ==
    list_resources(call.api_endpoint, call.digest, call.abstract, k, call.per_page, "ok").value.v

\* The results of pages 1..k, concatenated in page order.
RECURSIVE PagesUpTo(_)
PagesUpTo(k) == IF k <= 0 THEN <<>> ELSE PagesUpTo(k - 1) \o Served(k)

AllAnswered == \A j \in 1..Len(responses) : responses[j] = "ok"

\* C1: with a total count T > 0 and a page size P >= 1, and no request failing or
\* coming back empty, list_all_resources first issues one count query with
\* per_page 1, then the page requests 1, 2, ..., ceil(T / P) in that order and no
\* other, and returns the page results concatenated in page order.
C1_CountThenEveryPage ==
    (ListAll /\ server_total > 0 /\ AllAnswered) =>
        /\ requests[1] = CountRequest(call.api_endpoint)
        /\ \A j \in 2..Len(requests) :
              requests[j] = PageRequest(call.api_endpoint, j - 1, call.per_page)
        /\ Len(requests) <= 1 + CeilDiv(server_total, call.per_page)
        /\ pc = "done" =>
              /\ Len(requests) = 1 + CeilDiv(server_total, call.per_page)
              /\ outcome = Returned(PyList(PagesUpTo(CeilDiv(server_total, call.per_page))))

\* T = 25 and P = 10: three page requests after the count, 25 records returned.
C1_Witness ==
    /\ ListAll /\ pc = "done" /\ AllAnswered
    /\ server_total = 25 /\ call.per_page = 10
    /\ Len(requests) = 4
    /\ requests[4] = PageRequest(call.api_endpoint, 3, 10)
    /\ Len(outcome.value.v) = 25

\* C2: when page k is the first page request of list_all_resources to fail or to
\* come back empty, no page request numbered above k is issued and the list
\* returned is the concatenation of the results of pages 1..k-1.
C2_StopsAtFirstBadPage ==
    ListAll =>
        \A j \in 2..Len(responses) :
            responses[j] # "ok" =>
                /\ Len(requests) = j
                /\ pc \in {"return", "done"}
                /\ pc = "done" => outcome = Returned(PyList(PagesUpTo(j - 2)))

\* Page 2 fails: the result holds page 1's records only.
C2_Witness ==
    /\ ListAll /\ pc = "done"
    /\ responses = <<"ok", "ok", "error">>
    /\ total_pages > 2
    /\ outcome.value.v = Served(1)
    /\ Len(outcome.value.v) = call.per_page

\* C8: a failed request makes get_resource and list_resources raise
\* OpenAlexClientError; it makes get_total_count return 0; list_all_resources never
\* raises for it and returns the records accumulated so far, which is the empty
\* list, with no page request issued, when the count query is the one that fails.
C8_TransportFailure ==
    /\ (call.op \in {"get_resource", "list_resources"} /\ responses[1] = "error")
          => outcome = Raised("OpenAlexClientError")
    /\ (call.op = "get_total_count" /\ responses[1] = "error")
          => outcome = Returned(PyInt(0))
    /\ ListAll =>
          /\ outcome.kind \in {"pending", "return"}
          /\ responses[1] = "error" =>
                /\ pc = "done"
                /\ Len(requests) = 1
                /\ outcome = Returned(PyList(<<>>))
          /\ (pc = "done" /\ \E j \in 2..Len(responses) : responses[j] = "error") =>
                /\ outcome = Returned(PyList(all_records))
                /\ all_records = PagesUpTo(Len(responses) - 2)

\* The count query of list_all_resources fails although the upstream holds records.
C8_Witness ==
    /\ ListAll /\ pc = "done"
    /\ server_total > 0
    /\ responses = <<"error">>
    /\ Len(requests) = 1
    /\ outcome = Returned(PyList(<<>>))

\* ---- digest on request, for the works endpoint only
Digesting == call.digest /\ call.api_endpoint = WORKS

\* The records as the caller gets them: parse_work of each when the call digests,
\* the records as the upstream sent them otherwise.
AsDelivered(records) ==
    IF Digesting
    THEN [i \in 1..Len(records) |-> parse_work(records[i], call.abstract).value]
    ELSE records

\* The records of pages 1..k as the upstream sent them, in page order.
RECURSIVE RawPages(_)
RawPages(k) ==
    IF k <= 0 THEN <<>> ELSE RawPages(k - 1) \o PageOf(server_total, k, call.per_page)

\* The number of page requests of the call in progress that were answered "ok".
PagesAnswered == Cardinality({j \in 2..Len(responses) : responses[j] = "ok"})

\* C11: get_resource, list_resources and list_all_resources return digested records
\* only when digest is asked for and the endpoint is "works"; in every other case
\* (no digest, or another endpoint even with digest) they return the records as
\* the upstream sent them.
C11_DigestOnlyForWorks ==
    /\ (call.op = "get_resource" /\ responses[1] = "ok") =>
          \E resource_id \in 1..MaxTotal :
              /\ requests[1] = ResourceRequest(call.api_endpoint, resource_id)
              /\ outcome = Returned(AsDelivered(<<Entity(resource_id)>>)[1])
              /\ (outcome.value = Entity(resource_id)) <=> ~Digesting
    /\ (call.op = "list_resources" /\ responses[1] = "ok") =>
          LET sent == PageOf(server_total, requests[1].params.page,
                             requests[1].params.per_page)
          IN /\ outcome = Returned(PyList(AsDelivered(sent)))
             /\ ~Digesting => outcome.value.v = sent
             /\ (Digesting /\ sent # <<>>) => outcome.value.v # sent
    /\ (ListAll /\ pc = "done") =>
          LET sent == IF responses[1] = "ok" THEN RawPages(PagesAnswered) ELSE <<>>
          IN /\ outcome = Returned(PyList(AsDelivered(sent)))
             /\ ~Digesting => outcome.value.v = sent
             /\ (Digesting /\ sent # <<>>) => outcome.value.v # sent

\* Digest asked for on the authors endpoint: list_all_resources returns the
\* records of two pages as the upstream sent them.
C11_Witness ==
    /\ ListAll /\ pc = "done"
    /\ call.digest /\ call.api_endpoint = AUTHORS
    /\ responses = <<"ok", "ok", "ok">>
    /\ Len(outcome.value.v) > call.per_page
    /\ outcome.value.v[1] = Entity(1)
    /\ outcome.value.v[Len(outcome.value.v)] = Entity(server_total)

\* ---- extract_unique_country_codes, called directly and through parse_work
MaxCountryAuthors == 3

DE == PyStr(<<"D", "E">>)

\* What one authorship object holds for countries: no entry, or a list of codes.
CountriesChoices ==
    {<<>>} \cup
    {<< <<K_countries, PyList(codes)>> >> :
        codes \in {<<>>, <<US, FR>>, <<FR>>, <<FR, FR>>, <<US, DE>>}}

CountryInputs ==
    {PyList(authors) :
        authors \in UNION {[1..n -> {PyDict(c) : c \in CountriesChoices}] :
                              n \in 0..MaxCountryAuthors}}

InitCountries ==
    /\ ClientAtRest
    /\ fn \in {"extract_unique_country_codes", "parse_work"}
    /\ input \in CountryInputs
    /\ step = "call"
    /\ parsed_data = <<>>
    /\ failed_rules = {}
    /\ output = Pending

\* extract_unique_country_codes(authorships)
ExtractUniqueCountryCodes ==
    /\ fn = "extract_unique_country_codes"
    /\ step = "call"
    /\ output' = extract_unique_country_codes(input)
    /\ step' = "done"
    /\ UNCHANGED <<fn, input, parsed_data, failed_rules, client_vars>>

\* parse_work({"authorships": authorships})
EmitCountriesCodes ==
    /\ fn = "parse_work"
    /\ step = "call"
    /\ output' = parse_work(PyDict(<< <<K_authorships, input>> >>), FALSE)
    /\ step' = "done"
    /\ UNCHANGED <<fn, input, parsed_data, failed_rules, client_vars>>

NextCountries == ExtractUniqueCountryCodes \/ EmitCountriesCodes

SpecCountries == InitCountries /\ [][NextCountries]_vars

\* The codes of every author of the list, as a set of character sequences.
CodesOf(authorships) ==
    UNION {{Lookup(authorships.v[i].v, K_countries).v[j].v :
               j \in 1..Len(Lookup(authorships.v[i].v, K_countries).v)} :
           i \in {k \in 1..Len(authorships.v) : HasKey(authorships.v[k].v, K_countries)}}

\* The parts of s between its '|' characters; none for the empty string.
RECURSIVE SplitFrom(_, _, _)
SplitFrom(s, i, part) ==
    IF i > Len(s) THEN <<part>>
    ELSE IF s[i] = "|" THEN <<part>> \o SplitFrom(s, i + 1, <<>>)
    ELSE SplitFrom(s, i + 1, Append(part, s[i]))

PipeParts(s) == IF s = <<>> THEN <<>> ELSE SplitFrom(s, 1, <<>>)

\* The string the call produced: its return value, or the countries_codes field.
CountryCodesOut ==
    IF fn = "parse_work" THEN Lookup(output.value.v, K_countries_codes) ELSE output.value

CountriesDone ==
    fn \in {"extract_unique_country_codes", "parse_work"} /\ step = "done"
        /\ input \in CountryInputs

\* C12: for a list of authorship objects, extract_unique_country_codes, and the
\* countries_codes field parse_work emits from it, is one str: the codes of all
\* the authors, each once, in ascending lexicographic order, joined by '|'; the
\* empty str when no author has a code; an author with no countries entry adds
\* nothing.
C12_CountryCodes ==
    CountriesDone =>
        /\ output.kind = "return"
        /\ fn = "parse_work" => HasKey(output.value.v, K_countries_codes)
        /\ IsStr(CountryCodesOut)
        /\ LET parts == PipeParts(CountryCodesOut.v)
           IN /\ {parts[i] : i \in 1..Len(parts)} = CodesOf(input)
              /\ \A i \in 1..(Len(parts) - 1) : StrLess(parts[i], parts[i + 1])
        /\ CodesOf(input) = {} <=> CountryCodesOut = PyStr(<<>>)

\* [{countries: [US, FR]}, {countries: [FR]}, {}] gives 'FR|US'.
C12_Witness ==
    /\ CountriesDone
    /\ fn = "extract_unique_country_codes"
    /\ input = PyList(<<PyDict(<< <<K_countries, PyList(<<US, FR>>)>> >>),
                        PyDict(<< <<K_countries, PyList(<<FR>>)>> >>),
                        PyDict(<<>>)>>)
    /\ output = Returned(PyStr(<<"F", "R", "|", "U", "S">>))

====
